---- MODULE Spec2Model ----
(***************************************************************************)
(* A model of tinydns' DHCP-lease tooling: the lease-file parser and lease *)
(* store of dhcpd.py and the record generation of dhcp2tinydns.py.         *)
(*                                                                         *)
(* Python strings are modelled as sequences of one-character strings, so   *)
(* that strip, split, startswith, replace and lower are computed character *)
(* by character as the code computes them.  Times are integers counting    *)
(* ticks of 1/TicksPerSecond second, so that int() truncates.              *)
(***************************************************************************)
EXTENDS Integers, Sequences, FiniteSets, TLC

VARIABLES
    pc,             \* position in the script / constructor being run
    fatal,          \* the uncaught exception that ended the run, or NoException
    CURRENT_TIME,   \* dhcp2tinydns.CURRENT_TIME, in ticks
    current_lease,  \* Leases.__init__: the lease of the block being read
    leases,         \* Leases.leases
    nread,          \* number of lines of the lease file read so far
    line,           \* Leases.__init__: the line being processed
    ttl,            \* what calc_ttl returned
    options_domain, \* options.domain
    domain_map,     \* domain_map: a dict, as its items in insertion order
    dmap,           \* domain_getter: the sorted items get_domain scans
    resolved,       \* the last get_domain call: its argument and result
    dry_run,        \* options.dry_run
    macfile,        \* the lines of options.macfile, or None without the option
    mac_i,          \* number of lines of the macfile processed
    mac_host_names, \* mac_host_names: a dict, as a function
    dynamics,       \* dynamics: a dict, as its items in insertion order
    lease_i,        \* number of leases taken from leases.yield_unique()
    merged,         \* the contents dns.merge wrote to the tinydns root, in order
    stdout          \* what was printed, in order

parserVars == <<current_lease, nread, line>>
domainVars == <<options_domain, domain_map, dmap, resolved>>
assemblyVars == <<macfile, mac_i, mac_host_names, dynamics, lease_i>>
outputVars == <<dry_run, merged, stdout>>
vars == <<pc, fatal, CURRENT_TIME, leases, ttl, parserVars, domainVars,
          assemblyVars, outputVars>>

\* A nullable Python value is None or Some(v); the(x) is the v of Some(v).
None == <<>>
Some(v) == <<v>>
the(x) == x[1]

\* The value of fatal while no exception has escaped.
NoException == "no exception"

(***************************************************************************)
(* Bounds of the model.                                                    *)
(***************************************************************************)
MaxLines == 6          \* lines of the lease file read by SpecParse
MaxNameLen == 3        \* characters of a generated client-hostname value
MaxPrefixes == 3       \* distinct prefixes in the domain map
MaxLeases == 2         \* leases in the lease file of a whole run
MaxMacLines == 2       \* lines of the macfile
TicksPerSecond == 2    \* clock resolution: ticks per second

(***************************************************************************)
(* Python string primitives.                                               *)
(***************************************************************************)
Whitespace == {" ", "\t"}

RECURSIVE lstrip(_, _)
lstrip(s, chars) ==
    IF s # <<>> /\ Head(s) \in chars THEN lstrip(Tail(s), chars) ELSE s

RECURSIVE rstrip(_, _)
rstrip(s, chars) ==
    IF s # <<>> /\ s[Len(s)] \in chars
    THEN rstrip(SubSeq(s, 1, Len(s) - 1), chars) ELSE s

strip(s) == rstrip(lstrip(s, Whitespace), Whitespace)

startswith(s, prefix) ==
    Len(s) >= Len(prefix) /\ SubSeq(s, 1, Len(prefix)) = prefix

\* s[:-1]
DropLast(s) == IF s = <<>> THEN s ELSE SubSeq(s, 1, Len(s) - 1)

\* str.split(sep) for a one-character separator: empty fields are kept.
RECURSIVE SplitOn(_, _, _, _)
SplitOn(s, sep, word, acc) ==
    IF s = <<>> THEN Append(acc, word)
    ELSE IF Head(s) = sep THEN SplitOn(Tail(s), sep, <<>>, Append(acc, word))
    ELSE SplitOn(Tail(s), sep, Append(word, Head(s)), acc)

\* str.split(): runs of whitespace separate the fields, none of them empty.
RECURSIVE SplitWs(_, _, _)
SplitWs(s, word, acc) ==
    IF s = <<>> THEN (IF word = <<>> THEN acc ELSE Append(acc, word))
    ELSE IF Head(s) \in Whitespace
         THEN SplitWs(Tail(s), <<>>, IF word = <<>> THEN acc ELSE Append(acc, word))
         ELSE SplitWs(Tail(s), Append(word, Head(s)), acc)

split(s) == SplitWs(s, <<>>, <<>>)

\* str.replace(old, new) for a one-character old.
RECURSIVE replace(_, _, _)
replace(s, old, new) ==
    IF s = <<>> THEN <<>>
    ELSE (IF Head(s) = old THEN new ELSE <<Head(s)>>) \o replace(Tail(s), old, new)

UpperToLower ==
    [c \in {"A", "B", "C", "H", "O", "P", "S", "X"} |->
        CASE c = "A" -> "a" [] c = "B" -> "b" [] c = "C" -> "c" [] c = "H" -> "h"
          [] c = "O" -> "o" [] c = "P" -> "p" [] c = "S" -> "s" [] c = "X" -> "x"]

\* str.lower(), over the letters the model's inputs use.
lower(s) == [i \in 1..Len(s) |->
                IF s[i] \in DOMAIN UpperToLower THEN UpperToLower[s[i]] ELSE s[i]]

DigitValue ==
    [c \in {"0", "1", "2", "3", "4", "5", "6", "7", "8", "9"} |->
        CASE c = "0" -> 0 [] c = "1" -> 1 [] c = "2" -> 2 [] c = "3" -> 3
          [] c = "4" -> 4 [] c = "5" -> 5 [] c = "6" -> 6 [] c = "7" -> 7
          [] c = "8" -> 8 [] c = "9" -> 9]

IsDigits(s) == s # <<>> /\ \A i \in 1..Len(s) : s[i] \in DOMAIN DigitValue

RECURSIVE DecimalValue(_)
DecimalValue(s) ==
    IF s = <<>> THEN 0
    ELSE DecimalValue(SubSeq(s, 1, Len(s) - 1)) * 10 + DigitValue[s[Len(s)]]

(***************************************************************************)
(* dhcpd.py: time                                                          *)
(***************************************************************************)
MAX_LEASE == 60 * 60 * 24 * 7 * 52 * TicksPerSecond

\* time.strptime(timestamp, '%Y/%m/%d %H:%M:%S') accepts the timestamp.
strptime_ok(timestamp) ==
    LET halves == split(timestamp) IN
    /\ Len(halves) = 2
    /\ LET d == SplitOn(halves[1], "/", <<>>, <<>>)
           t == SplitOn(halves[2], ":", <<>>, <<>>)
       IN /\ Len(d) = 3 /\ Len(t) = 3
          /\ \A i \in 1..3 : IsDigits(d[i]) /\ IsDigits(t[i])
          /\ Len(d[1]) = 4
          /\ \A i \in 2..3 : Len(d[i]) <= 2
          /\ \A i \in 1..3 : Len(t[i]) <= 2
          /\ DecimalValue(d[2]) \in 1..12
          /\ DecimalValue(d[3]) \in 1..31
          /\ DecimalValue(t[1]) \in 0..23
          /\ DecimalValue(t[2]) \in 0..59
          /\ DecimalValue(t[3]) \in 0..61

\* time.mktime(time.strptime(...)): seconds on the model's calendar (months
\* of 31 days, years counted from 2024), which orders timestamps as the
\* real calendar does; in ticks.
mktime(timestamp) ==
    LET halves == split(timestamp)
        d == SplitOn(halves[1], "/", <<>>, <<>>)
        t == SplitOn(halves[2], ":", <<>>, <<>>)
        days == ((DecimalValue(d[1]) - 2024) * 12 + (DecimalValue(d[2]) - 1)) * 31
                + (DecimalValue(d[3]) - 1)
    IN (((days * 24 + DecimalValue(t[1])) * 60 + DecimalValue(t[2])) * 60
          + DecimalValue(t[3])) * TicksPerSecond

(***************************************************************************)
(* dhcpd.py: Lease                                                         *)
(***************************************************************************)
\* Lease.__init__
Lease(l) ==
    [ip |-> split(l)[2], mac |-> None, expiration |-> None, host_name |-> None]

\* set_host_name turning quote characters into dashes, not removing them.
set_host_name_dashing_quotes(lease, name) ==
    LET unquoted == replace(replace(name, "\"", <<"-">>), "'", <<"-">>)
        dashed   == replace(replace(replace(replace(unquoted,
                        "/", <<"-">>), "\\", <<"-">>), "_", <<"-">>), " ", <<"-">>)
        stripped == lstrip(dashed, {"-"})
    IN IF stripped = <<>> THEN lease
       ELSE [lease EXCEPT !.host_name = Some(lower(stripped))]

\* Lease.set_host_name
set_host_name(lease, name) ==
    LET unquoted == replace(replace(name, "\"", <<>>), "'", <<>>)
        dashed   == replace(replace(replace(replace(unquoted,
                        "/", <<"-">>), "\\", <<"-">>), "_", <<"-">>), " ", <<"-">>)
        stripped == lstrip(dashed, {"-"})
    IN IF stripped = <<>> THEN lease
       ELSE [lease EXCEPT !.host_name = Some(lower(stripped))]

Raise(e) == [raised |-> e]
Return(v) == [raised |-> NoException, value |-> v]

\* add_line taking any line that carries a date, `starts` as well as `ends`,
\* for the expiration.
add_line_any_date(lease, l, time_time) ==
    LET fields == split(DropLast(l)) IN
    IF fields = <<>> THEN Raise("IndexError")
    ELSE IF fields[1] \in {<<"e", "n", "d", "s">>, <<"s", "t", "a", "r", "t", "s">>}
    THEN IF Len(fields) <= 3
         THEN Return([lease EXCEPT !.expiration = Some(time_time + MAX_LEASE)])
         ELSE LET timestamp == fields[3] \o <<" ">> \o fields[4] IN
              IF strptime_ok(timestamp)
              THEN Return([lease EXCEPT !.expiration = Some(mktime(timestamp))])
              ELSE Raise("ValueError")
    ELSE IF SubSeq(fields, 1, IF Len(fields) < 2 THEN Len(fields) ELSE 2)
               = <<<<"h", "a", "r", "d", "w", "a", "r", "e">>, <<"e", "t", "h", "e", "r", "n", "e", "t">>>>
    THEN IF Len(fields) >= 3
         THEN Return([lease EXCEPT !.mac = Some(fields[3])])
         ELSE Raise("IndexError")
    ELSE IF fields[1] = <<"c", "l", "i", "e", "n", "t", "-", "h", "o", "s", "t", "n", "a", "m", "e">>
    THEN IF Len(fields) >= 2
         THEN Return(set_host_name(lease, fields[2]))
         ELSE Raise("IndexError")
    ELSE Return(lease)

\* Lease.add_line; time_time is what time.time() returns.
add_line(lease, l, time_time) ==
    LET fields == split(DropLast(l)) IN
    IF fields = <<>> THEN Raise("IndexError")
    ELSE IF fields[1] = <<"e", "n", "d", "s">>
    THEN IF Len(fields) <= 3
         THEN Return([lease EXCEPT !.expiration = Some(time_time + MAX_LEASE)])
         ELSE LET timestamp == fields[3] \o <<" ">> \o fields[4] IN
              IF strptime_ok(timestamp)
              THEN Return([lease EXCEPT !.expiration = Some(mktime(timestamp))])
              ELSE Raise("ValueError")
    ELSE IF SubSeq(fields, 1, IF Len(fields) < 2 THEN Len(fields) ELSE 2)
               = <<<<"h", "a", "r", "d", "w", "a", "r", "e">>, <<"e", "t", "h", "e", "r", "n", "e", "t">>>>
    THEN IF Len(fields) >= 3
         THEN Return([lease EXCEPT !.mac = Some(fields[3])])
         ELSE Raise("IndexError")
    ELSE IF fields[1] = <<"c", "l", "i", "e", "n", "t", "-", "h", "o", "s", "t", "n", "a", "m", "e">>
    THEN IF Len(fields) >= 2
         THEN Return(set_host_name(lease, fields[2]))
         ELSE Raise("IndexError")
    ELSE Return(lease)

\* Lease.__lt__ on two leases: raises TypeError when an expiration is None.
lt_raises(a, b) == a.expiration = None \/ b.expiration = None
lt(a, b) == the(a.expiration) < the(b.expiration)

(***************************************************************************)
(* dhcpd.py: Leases                                                        *)
(***************************************************************************)
\* list.sort(): stable, ascending under __lt__.
RECURSIVE InsertSorted(_, _)
InsertSorted(sorted, x) ==
    IF sorted = <<>> THEN <<x>>
    ELSE IF lt(x, sorted[Len(sorted)])
         THEN Append(InsertSorted(SubSeq(sorted, 1, Len(sorted) - 1), x),
                     sorted[Len(sorted)])
         ELSE Append(sorted, x)

RECURSIVE sort(_)
sort(s) ==
    IF s = <<>> THEN <<>>
    ELSE InsertSorted(sort(SubSeq(s, 1, Len(s) - 1)), s[Len(s)])

\* A reverse() that leaves the list as sorted: ascending.
reverse_kept(s) == s

\* list.reverse()
reverse(s) == [i \in 1..Len(s) |-> s[Len(s) + 1 - i]]

\* list.sort() compares every element of a list of two or more with another.
sort_raises(s) ==
    Len(s) >= 2 /\ \E i \in 1..Len(s) : lt_raises(s[i], s[i])


\* Leases.__init__, after the loop: self.leases.sort(); self.leases.reverse().
sorted_leases(parsed) == reverse(sort(parsed))

\* A lookup that returns the last lease with the hardware address.
RECURSIVE getitem_last(_, _)
getitem_last(store, mac) ==
    IF store = <<>> THEN Raise("KeyError")
    ELSE IF store[Len(store)].mac = Some(mac) THEN Return(store[Len(store)])
    ELSE getitem_last(SubSeq(store, 1, Len(store) - 1), mac)

\* Leases.__getitem__
RECURSIVE getitem(_, _)
getitem(store, mac) ==
    IF store = <<>> THEN Raise("KeyError")
    ELSE IF Head(store).mac = Some(mac) THEN Return(Head(store))
    ELSE getitem(Tail(store), mac)

\* Leases.yield_unique: the leases it yields, in order.
RECURSIVE yield_from(_, _)
yield_from(rest, reported) ==
    IF rest = <<>> THEN <<>>
    ELSE LET lease == Head(rest)
             key == <<lease.host_name, lease.ip>>
         IN IF \E i \in DOMAIN reported : reported[i] = key
            THEN yield_from(Tail(rest), reported)
            ELSE <<lease>> \o yield_from(Tail(rest), Append(reported, key))

\* A yield_unique that suppresses nothing.
yield_every(store) == store

yield_unique(store) == yield_from(store, <<>>)

(***************************************************************************)
(* dhcp2tinydns.py: utility functions                                      *)
(***************************************************************************)
MAX_TTL == 24 * 60 * 60
MIN_TTL == 60

max(a, b) == IF a >= b THEN a ELSE b
min(a, b) == IF a <= b THEN a ELSE b

\* int(x) for x a number of ticks: the whole seconds, truncated toward zero.
int(x) ==
    IF x >= 0 THEN x \div TicksPerSecond ELSE -((-x) \div TicksPerSecond)

Digits == <<"0", "1", "2", "3", "4", "5", "6", "7", "8", "9">>

\* str(n) for an integer n
RECURSIVE str(_)
str(n) ==
    IF n < 0 THEN <<"-">> \o str(-n)
    ELSE IF n < 10 THEN <<Digits[n + 1]>>
    ELSE str(n \div 10) \o <<Digits[(n % 10) + 1]>>

\* calc_ttl without the upper clamp.
calc_ttl_uncapped(lease) ==
    IF lease.expiration = None THEN Raise("TypeError")
    ELSE LET t0 == int(the(lease.expiration) - CURRENT_TIME)
             t1 == max(t0, MIN_TTL)
             t2 == min(t1, MAX_TTL)
         IN Return(str(t1))

\* calc_ttl
calc_ttl(lease) ==
    IF lease.expiration = None THEN Raise("TypeError")
    ELSE LET t0 == int(the(lease.expiration) - CURRENT_TIME)
             t1 == max(t0, MIN_TTL)
             t2 == min(t1, MAX_TTL)
         IN Return(str(t2))

\* dedot
dedot(dom) == lstrip(strip(dom), {"."})

\* ipaddress.ip_address(s) accepts s: four decimal octets.
ip_address_ok(s) ==
    LET octets == SplitOn(s, ".", <<>>, <<>>) IN
    /\ Len(octets) = 4
    /\ \A i \in 1..4 : /\ IsDigits(octets[i])
                       /\ Len(octets[i]) <= 3
                       /\ DecimalValue(octets[i]) <= 255

\* Addresses and address counts reach 2^32: an integer n is held as the two
\* limbs [hi, lo] with n = hi * 2^16 + lo, so that no sum leaves the range
\* of TLC's integers.
Limb == 2 ^ 16
wide(hi, lo) == [hi |-> hi + (lo \div Limb), lo |-> lo % Limb]
wide_add(a, b) == wide(a.hi + b.hi, a.lo + b.lo)
wide_lt(a, b) == a.hi < b.hi \/ (a.hi = b.hi /\ a.lo < b.lo)
wide_le(a, b) == a = b \/ wide_lt(a, b)

\* ipaddress.ip_address(s)._ip: the address as an integer
ip_address(s) ==
    LET octets == SplitOn(s, ".", <<>>, <<>>) IN
    wide(DecimalValue(octets[1]) * 256 + DecimalValue(octets[2]),
         DecimalValue(octets[3]) * 256 + DecimalValue(octets[4]))

\* IPv4Network.num_addresses
num_addresses(net) ==
    IF net.prefixlen <= 16 THEN wide(2 ^ (16 - net.prefixlen), 0)
    ELSE wide(0, 2 ^ (32 - net.prefixlen))

\* network_address % num_addresses = 0: no host bit is set.
no_host_bits(net) ==
    IF net.prefixlen <= 16
    THEN net.network_address.lo = 0
         /\ net.network_address.hi % (2 ^ (16 - net.prefixlen)) = 0
    ELSE net.network_address.lo % (2 ^ (32 - net.prefixlen)) = 0

\* ipaddress.ip_network(s): raises ValueError unless s is address[/length]
\* with no host bit set.
ip_network(s) ==
    LET parts == SplitOn(s, "/", <<>>, <<>>) IN
    IF Len(parts) > 2 \/ ~ip_address_ok(parts[1]) THEN Raise("ValueError")
    ELSE IF Len(parts) = 2 /\ ~IsDigits(parts[2]) THEN Raise("ValueError")
    ELSE IF Len(parts) = 2 /\ DecimalValue(parts[2]) > 32 THEN Raise("ValueError")
    ELSE LET net == [network_address |-> ip_address(parts[1]),
                     prefixlen |-> IF Len(parts) = 2 THEN DecimalValue(parts[2])
                                   ELSE 32]
         IN IF ~no_host_bits(net) THEN Raise("ValueError") ELSE Return(net)

\* ipobj in cidr
contains(net, ip) ==
    /\ wide_le(net.network_address, ip)
    /\ wide_lt(ip, wide_add(net.network_address, num_addresses(net)))

\* A dict as the sequence of its items: d[k] = v, k in d, d[k].
dict_has(d, k) == \E i \in DOMAIN d : d[i].key = k
dict_get(d, k) == d[CHOOSE i \in DOMAIN d : d[i].key = k].value
dict_set(d, k, v) ==
    IF dict_has(d, k)
    THEN [i \in DOMAIN d |-> IF d[i].key = k THEN [key |-> k, value |-> v] ELSE d[i]]
    ELSE Append(d, [key |-> k, value |-> v])

\* A sort key that forgets the size of the network.
sort_key_base(item) == item.key.network_address

\* The lambda of domain_getter: the sort key of an item of the domain map.
sort_key(item) == wide_add(item.key.network_address, num_addresses(item.key))

\* list.sort(key=...): stable, ascending by sort_key.
RECURSIVE InsertByKey(_, _)
InsertByKey(sorted, x) ==
    IF sorted = <<>> THEN <<x>>
    ELSE IF wide_lt(sort_key(x), sort_key(sorted[Len(sorted)]))
         THEN Append(InsertByKey(SubSeq(sorted, 1, Len(sorted) - 1), x),
                     sorted[Len(sorted)])
         ELSE Append(sorted, x)

RECURSIVE sort_by_key(_)
sort_by_key(s) ==
    IF s = <<>> THEN <<>>
    ELSE InsertByKey(sort_by_key(SubSeq(s, 1, Len(s) - 1)), s[Len(s)])

\* domain_getter: the list dmap its closure scans.
domain_getter(dm) == sort_by_key(dm)

\* A scan that returns the domain of the last prefix containing the address.
RECURSIVE last_match(_, _)
last_match(sorted, ipobj) ==
    IF sorted = <<>> THEN None
    ELSE IF contains(sorted[Len(sorted)].key, ipobj)
         THEN Some(sorted[Len(sorted)].value)
    ELSE last_match(SubSeq(sorted, 1, Len(sorted) - 1), ipobj)

\* _real_get_domain over the sorted list: the domain, or None.
RECURSIVE first_match(_, _)
first_match(sorted, ipobj) ==
    IF sorted = <<>> THEN None
    ELSE IF contains(Head(sorted).key, ipobj) THEN Some(Head(sorted).value)
    ELSE first_match(Tail(sorted), ipobj)

get_domain(sorted, ip) ==
    IF ~ip_address_ok(ip) THEN Raise("ValueError")
    ELSE Return(first_match(sorted, ip_address(ip)))

\* tinydata.Alias(fqdn, ip, ttl=ttl)
Alias(fqdn, ip, t) == [fqdn |-> fqdn, ip |-> ip, ttl |-> t]

\* A make_alias_entry that takes an unresolved domain for the empty one.
make_alias_entry_blank_domain(sorted, lease, name) ==
    LET hostname == IF name = None THEN lease.host_name ELSE name
        found == get_domain(sorted, lease.ip)
        domain_suffix ==
            IF found.raised = NoException /\ found.value = None
            THEN Return(Some(<<>>)) ELSE found
    IN IF domain_suffix.raised # NoException THEN domain_suffix
       ELSE IF hostname = None \/ domain_suffix.value = None THEN Raise("TypeError")
       ELSE LET fqdn == the(hostname) \o <<".">> \o the(domain_suffix.value)
                t == calc_ttl(lease)
            IN IF t.raised # NoException THEN t
               ELSE Return(<<the(domain_suffix.value),
                             Alias(fqdn, lease.ip, t.value)>>)

\* make_alias_entry, with get_domain scanning `sorted`; name is None or
\* Some(host name given by the caller).
make_alias_entry(sorted, lease, name) ==
    LET hostname == IF name = None THEN lease.host_name ELSE name
        domain_suffix == get_domain(sorted, lease.ip)
    IN IF domain_suffix.raised # NoException THEN domain_suffix
       ELSE IF hostname = None \/ domain_suffix.value = None THEN Raise("TypeError")
       ELSE LET fqdn == the(hostname) \o <<".">> \o the(domain_suffix.value)
                t == calc_ttl(lease)
            IN IF t.raised # NoException THEN t
               ELSE Return(<<the(domain_suffix.value),
                             Alias(fqdn, lease.ip, t.value)>>)

\* dynamics.setdefault(suffix, []).append(entry)
setdefault_append(d, suffix, entry) ==
    IF dict_has(d, suffix)
    THEN [i \in DOMAIN d |->
            IF d[i].key = suffix
            THEN [key |-> suffix, value |-> Append(d[i].value, entry)]
            ELSE d[i]]
    ELSE Append(d, [key |-> suffix, value |-> <<entry>>])

\* The subnet-map loop body:
\*     i, d = line.split(); domain_map[ipnet(i.strip())] = dedot(d)
subnet_line(dm, l) ==
    LET fields == split(l) IN
    IF Len(fields) # 2 THEN Raise("ValueError")
    ELSE LET net == ip_network(strip(fields[1])) IN
         IF net.raised # NoException THEN net
         ELSE Return(dict_set(dm, net.value, dedot(fields[2])))

\* ipnet('0.0.0.0/0')
allnet == [network_address |-> wide(0, 0), prefixlen |-> 0]

\* A -d option that yields to a catch-all entry of the subnet map.
apply_domain_option_yielding(dm, opt) ==
    IF opt = None \/ opt = Some(<<>>)
    THEN [domain |-> opt, map |-> dm, printed |-> <<>>]
    ELSE LET d == dedot(the(opt)) IN
         [domain |-> Some(d),
          map |-> IF dict_has(dm, allnet) THEN dm ELSE dict_set(dm, allnet, d),
          printed |-> <<>>]

\* `if options.domain:` ...: the domain map and what is printed.
apply_domain_option(dm, opt) ==
    IF opt = None \/ opt = Some(<<>>)
    THEN [domain |-> opt, map |-> dm, printed |-> <<>>]
    ELSE LET d == dedot(the(opt))
             old == IF dict_has(dm, allnet) THEN dict_get(dm, allnet) ELSE d
         IN [domain |-> Some(d),
             map |-> dict_set(dm, allnet, d),
             printed |-> IF old # d
                         THEN <<[warning |-> "Use of -d causes override",
                                 new |-> d, old |-> dict_get(dm, allnet)]>>
                         ELSE <<>>]
(***************************************************************************)
(* Lease files: the lines the model draws from.                            *)
(***************************************************************************)
Line_lease_a   == <<"l", "e", "a", "s", "e", " ", "1", "0", ".", "0", ".", "0", ".", "5", " ", "{">>
Line_lease_b   == <<"l", "e", "a", "s", "e", " ", "1", "0", ".", "0", ".", "1", ".", "7", " ", "{">>
Line_close     == <<"}">>
Line_close_more == <<" ", " ", "}", ";", " ">>
Line_hardware  == <<" ", " ", "h", "a", "r", "d", "w", "a", "r", "e", " ", "e", "t", "h", "e", "r", "n", "e", "t", " ", "a", "a", ":", "0", "1", ";">>
Line_ends      == <<" ", " ", "e", "n", "d", "s", " ", "3", " ", "2", "0", "2", "4", "/", "0", "5", "/", "0", "1", " ", "1", "2", ":", "0", "0", ":", "0", "0", ";">>
Line_ends_never == <<" ", " ", "e", "n", "d", "s", " ", "n", "e", "v", "e", "r", ";">>
Line_hostname  == <<" ", " ", "c", "l", "i", "e", "n", "t", "-", "h", "o", "s", "t", "n", "a", "m", "e", " ", "\"", "H", "o", "s", "t", "_", "1", "\"", ";">>
Line_starts    == <<" ", " ", "s", "t", "a", "r", "t", "s", " ", "2", " ", "2", "0", "2", "4", "/", "0", "4", "/", "3", "0", " ", "1", "2", ":", "0", "0", ":", "0", "0", ";">>
Line_binding   == <<" ", " ", "b", "i", "n", "d", "i", "n", "g", " ", "s", "t", "a", "t", "e", " ", "a", "c", "t", "i", "v", "e", ";">>
Line_comment   == <<"#", " ", "T", "h", "e", " ", "f", "o", "r", "m", "a", "t", " ", "o", "f", " ", "t", "h", "i", "s", " ", "f", "i", "l", "e", " ", "i", "s", " ", "d", "o", "c", "u", "m", "e", "n", "t", "e", "d">>
Line_blank     == <<>>
Line_bad_date  == <<" ", " ", "e", "n", "d", "s", " ", "3", " ", "2", "0", "2", "4", "/", "1", "3", "/", "0", "1", " ", "1", "2", ":", "0", "0", ":", "0", "0", ";">>
Line_no_name   == <<" ", " ", "c", "l", "i", "e", "n", "t", "-", "h", "o", "s", "t", "n", "a", "m", "e", ";">>
Line_no_mac    == <<" ", " ", "h", "a", "r", "d", "w", "a", "r", "e", " ", "e", "t", "h", "e", "r", "n", "e", "t", ";">>
Line_semicolon == <<";">>

LogLines ==
    { Line_lease_a, Line_lease_b, Line_close, Line_hardware, Line_ends,
      Line_ends_never, Line_hostname, Line_starts, Line_binding, Line_comment,
      Line_blank, Line_bad_date, Line_no_name, Line_no_mac, Line_semicolon,
      Line_close_more }

\* Clock readings (ticks) at program start, and how far the clock may have
\* advanced when a line is processed.
StartTimes == { mktime(<<"2", "0", "2", "4", "/", "0", "5", "/", "0", "1", " ", "1", "1", ":", "0", "0", ":", "0", "0">>) + 1 }
ClockDrift == {0, 1}


\* client-hostname values: every string of up to MaxNameLen of these
\* characters, and the values of the specification's examples.
NameChars == {"\"", "'", "/", "\\", "_", " ", "-", "x", "B"}
Name_bob == <<"\"", "B", "o", "b", "'", "s", "_", "P", "C", "\"">>
Name_dashes == <<"-", "-", "-", "x">>
Name_underscores == <<"\"", "_", "_", "_", "\"">>
SeqsUpTo(S, n) == UNION {[1..k -> S] : k \in 0..n}
HostNameValues ==
    SeqsUpTo(NameChars, MaxNameLen) \cup {Name_bob, Name_dashes, Name_underscores}
ClientHostnameLine(v) == <<"c", "l", "i", "e", "n", "t", "-", "h", "o", "s", "t", "n", "a", "m", "e", " ">> \o v \o <<";">>

\* Expirations, as whole seconds after (before) a whole-second clock reading.
TtlOffsets == {-1000, -1, 0, 59, 60, 61, 3600, 86399, 86400, 86401, 10000000}
Midday == mktime(<<"2", "0", "2", "4", "/", "0", "5", "/", "0", "1", " ", "1", "2", ":", "0", "0", ":", "0", "0">>)
TtlStartTimes == {Midday, Midday + 1, Midday + TicksPerSecond}

\* Subnet-map files and the -d option.
Cidr_24 == <<"1", "0", ".", "0", ".", "0", ".", "0", "/", "2", "4">>
Cidr_16 == <<"1", "0", ".", "0", ".", "0", ".", "0", "/", "1", "6">>
Cidr_30 == <<"1", "0", ".", "0", ".", "0", ".", "4", "/", "3", "0">>
Cidr_25 == <<"1", "0", ".", "0", ".", "0", ".", "1", "2", "8", "/", "2", "5">>
Cidr_all == <<"0", ".", "0", ".", "0", ".", "0", "/", "0">>
Dom_a == <<"a", ".", "c", "o", "m">>
Dom_b == <<".", "b", ".", "c", "o", "m">>
Cidrs == {Cidr_24, Cidr_16, Cidr_30, Cidr_25, Cidr_all}
SubnetLines == {c \o <<" ">> \o d : c \in Cidrs, d \in {Dom_a, Dom_b}}
DomainOptions == {None, Some(Dom_b)}
Ip_5 == <<"1", "0", ".", "0", ".", "0", ".", "5">>
Ip_200 == <<"1", "0", ".", "0", ".", "0", ".", "2", "0", "0">>
Ip_1_7 == <<"1", "0", ".", "0", ".", "1", ".", "7">>
Ip_192 == <<"1", "9", "2", ".", "1", "6", "8", ".", "0", ".", "9">>
QueryIps == {Ip_5, Ip_200, Ip_1_7, Ip_192}

\* Whole runs: the inputs of dhcp2tinydns.
RunSubnetLines == {Cidr_24 \o <<" ">> \o Dom_a}
RunDomainOptions == {None, Some(Dom_b)}
Mac_1 == <<"a", "a", ":", "0", "1">>
Mac_2 == <<"a", "a", ":", "0", "2">>
Host_1 == <<"h", "o", "s", "t", "1">>
Host_printer == <<"p", "r", "i", "n", "t", "e", "r">>
Expiry_1 == Midday + 3600 * TicksPerSecond
Expiry_2 == Midday + 7200 * TicksPerSecond
RunStartTimes == {Midday + 1}
\* What the parser emits for the lease file, in file order.
RunLeases ==
    [ip : {Ip_5, Ip_192}, mac : {Some(Mac_1)},
     expiration : {None, Some(Expiry_1), Some(Expiry_2)},
     host_name : {None, Some(Host_1)}]
RunMacfiles == {None}
\* Runs with a macfile.
MacLines ==
    {Mac_1 \o <<" ">> \o Host_1, Mac_1 \o <<" ">> \o Host_printer,
     Mac_2 \o <<" ">> \o Host_printer}
OverrideLease(mac, host_name) ==
    [ip |-> Ip_5, mac |-> Some(mac), expiration |-> Some(Expiry_1),
     host_name |-> host_name]
OverrideLeases ==
    {[OverrideLease(Mac_1, None) EXCEPT !.expiration = Some(Expiry_2)],
     OverrideLease(Mac_1, Some(Host_1)),
     OverrideLease(Mac_1, Some(Host_printer)),
     OverrideLease(Mac_2, Some(Host_printer))}
OverrideMacfiles == {Some(f) : f \in SeqsUpTo(MacLines, MaxMacLines)}
\* A loop body in which a `lease ` line starts a new Lease inside a block too.
ReadLine_reopening(raw) ==
    /\ pc = "parse"
    /\ nread < MaxLines
    /\ nread' = nread + 1
    /\ line' = strip(raw)
    /\ UNCHANGED <<CURRENT_TIME, ttl, domainVars, assemblyVars, outputVars>>
    /\ LET l == strip(raw) IN
       IF startswith(l, <<"#">>) \/ l = <<>>
       THEN UNCHANGED <<pc, fatal, current_lease, leases>>
       ELSE IF startswith(l, <<"l", "e", "a", "s", "e", " ">>)
       THEN /\ current_lease' = Some(Lease(l))
            /\ UNCHANGED <<pc, fatal, leases>>
       ELSE IF startswith(l, <<"}">>) /\ current_lease # None
       THEN /\ leases' = Append(leases, the(current_lease))
            /\ current_lease' = None
            /\ UNCHANGED <<pc, fatal>>
       ELSE IF current_lease # None
       THEN \E drift \in ClockDrift :
              LET r == add_line(the(current_lease), l, CURRENT_TIME + drift) IN
              IF r.raised # NoException
              THEN /\ pc' = "failed"
                   /\ fatal' = r.raised
                   /\ UNCHANGED <<current_lease, leases>>
              ELSE /\ current_lease' = Some(r.value)
                   /\ UNCHANGED <<pc, fatal, leases>>
       ELSE UNCHANGED <<pc, fatal, current_lease, leases>>

\* A loop body that closes a block only on a line that is exactly `}`.
ReadLine_exact_close(raw) ==
    /\ pc = "parse"
    /\ nread < MaxLines
    /\ nread' = nread + 1
    /\ line' = strip(raw)
    /\ UNCHANGED <<CURRENT_TIME, ttl, domainVars, assemblyVars, outputVars>>
    /\ LET l == strip(raw) IN
       IF startswith(l, <<"#">>) \/ l = <<>>
       THEN UNCHANGED <<pc, fatal, current_lease, leases>>
       ELSE IF startswith(l, <<"l", "e", "a", "s", "e", " ">>) /\ current_lease = None
       THEN /\ current_lease' = Some(Lease(l))
            /\ UNCHANGED <<pc, fatal, leases>>
       ELSE IF l = <<"}">> /\ current_lease # None
       THEN /\ leases' = Append(leases, the(current_lease))
            /\ current_lease' = None
            /\ UNCHANGED <<pc, fatal>>
       ELSE IF current_lease # None
       THEN \E drift \in ClockDrift :
              LET r == add_line(the(current_lease), l, CURRENT_TIME + drift) IN
              IF r.raised # NoException
              THEN /\ pc' = "failed"
                   /\ fatal' = r.raised
                   /\ UNCHANGED <<current_lease, leases>>
              ELSE /\ current_lease' = Some(r.value)
                   /\ UNCHANGED <<pc, fatal, leases>>
       ELSE UNCHANGED <<pc, fatal, current_lease, leases>>

\* The loop body of Leases.__init__ for one line of the file; the clock
\* reads CURRENT_TIME + drift when the line is processed.
ReadLine(raw) ==
    /\ pc = "parse"
    /\ nread < MaxLines
    /\ nread' = nread + 1
    /\ line' = strip(raw)
    /\ UNCHANGED <<CURRENT_TIME, ttl, domainVars, assemblyVars, outputVars>>
    /\ LET l == strip(raw) IN
       IF startswith(l, <<"#">>) \/ l = <<>>
       THEN UNCHANGED <<pc, fatal, current_lease, leases>>
       ELSE IF startswith(l, <<"l", "e", "a", "s", "e", " ">>) /\ current_lease = None
       THEN /\ current_lease' = Some(Lease(l))
            /\ UNCHANGED <<pc, fatal, leases>>
       ELSE IF startswith(l, <<"}">>) /\ current_lease # None
       THEN /\ leases' = Append(leases, the(current_lease))
            /\ current_lease' = None
            /\ UNCHANGED <<pc, fatal>>
       ELSE IF current_lease # None
       THEN \E drift \in ClockDrift :
              LET r == add_line(the(current_lease), l, CURRENT_TIME + drift) IN
              IF r.raised # NoException
              THEN /\ pc' = "failed"
                   /\ fatal' = r.raised
                   /\ UNCHANGED <<current_lease, leases>>
              ELSE /\ current_lease' = Some(r.value)
                   /\ UNCHANGED <<pc, fatal, leases>>
       ELSE UNCHANGED <<pc, fatal, current_lease, leases>>

\* An end of file that also appends the Lease of a block still open.
EndOfInput_flush ==
    /\ pc = "parse"
    /\ LET all == IF current_lease = None THEN leases
                  ELSE Append(leases, the(current_lease)) IN
       IF sort_raises(all)
       THEN /\ pc' = "failed"
            /\ fatal' = "TypeError"
            /\ leases' = all
       ELSE /\ pc' = "loaded"
            /\ leases' = reverse(sort(all))
            /\ UNCHANGED fatal
    /\ UNCHANGED <<CURRENT_TIME, ttl, parserVars, domainVars, assemblyVars, outputVars>>

\* The end of the file: self.leases.sort(); self.leases.reverse().
EndOfInput ==
    /\ pc = "parse"
    /\ IF sort_raises(leases)
       THEN /\ pc' = "failed"
            /\ fatal' = "TypeError"
            /\ UNCHANGED leases
       ELSE /\ pc' = "loaded"
            /\ leases' = reverse(sort(leases))
            /\ UNCHANGED fatal
    /\ UNCHANGED <<CURRENT_TIME, ttl, parserVars, domainVars, assemblyVars, outputVars>>


\* The branch `current_lease.add_line(line)` of the loop body, for a line
\* that reached it.
AddLine ==
    /\ pc = "add_line"
    /\ LET r == add_line(the(current_lease), line, CURRENT_TIME) IN
       IF r.raised # NoException
       THEN /\ pc' = "failed"
            /\ fatal' = r.raised
            /\ UNCHANGED current_lease
       ELSE /\ pc' = "added"
            /\ current_lease' = Some(r.value)
            /\ UNCHANGED fatal
    /\ UNCHANGED <<CURRENT_TIME, leases, nread, line, ttl, domainVars,
                   assemblyVars, outputVars>>

\* A call of calc_ttl on the lease at hand.
CalcTtl ==
    /\ pc = "calc_ttl"
    /\ LET r == calc_ttl(the(current_lease)) IN
       IF r.raised # NoException
       THEN /\ pc' = "failed"
            /\ fatal' = r.raised
            /\ UNCHANGED ttl
       ELSE /\ pc' = "ttl_returned"
            /\ ttl' = Some(r.value)
            /\ UNCHANGED fatal
    /\ UNCHANGED <<CURRENT_TIME, leases, parserVars, domainVars, assemblyVars,
                   outputVars>>

\* One pass of the loop over the subnet map.
ReadSubnetLine(l) ==
    /\ pc = "subnet_map"
    /\ LET r == subnet_line(domain_map, l) IN
       IF r.raised # NoException
       THEN /\ pc' = "failed"
            /\ fatal' = r.raised
            /\ UNCHANGED domain_map
       ELSE /\ Len(r.value) <= MaxPrefixes
            /\ domain_map' = r.value
            /\ UNCHANGED <<pc, fatal>>
    /\ UNCHANGED <<CURRENT_TIME, leases, ttl, parserVars, options_domain, dmap,
                   resolved, assemblyVars, outputVars>>

\* After the subnet map: the -d option, then get_domain = domain_getter(...).
FinishDomainMap ==
    /\ pc = "subnet_map"
    /\ LET r == apply_domain_option(domain_map, options_domain) IN
       /\ options_domain' = r.domain
       /\ domain_map' = r.map
       /\ stdout' = stdout \o r.printed
       /\ dmap' = domain_getter(r.map)
    /\ pc' = "load"
    /\ UNCHANGED <<fatal, CURRENT_TIME, leases, ttl, parserVars, resolved,
                   assemblyVars, dry_run, merged>>

\* A call get_domain(ip).
Resolve(ip) ==
    /\ pc = "load"
    /\ LET r == get_domain(dmap, ip) IN
       IF r.raised # NoException
       THEN /\ pc' = "failed"
            /\ fatal' = r.raised
            /\ UNCHANGED resolved
       ELSE /\ resolved' = Some([ip |-> ip, domain |-> r.value])
            /\ UNCHANGED <<pc, fatal>>
    /\ UNCHANGED <<CURRENT_TIME, leases, ttl, parserVars, options_domain,
                   domain_map, dmap, assemblyVars, outputVars>>

\* leases = dhcpd.Leases(options.leases), for a lease file from which the
\* parser emits `parsed`.
LoadLeases(parsed) ==
    /\ pc = "load"
    /\ IF sort_raises(parsed)
       THEN /\ pc' = "failed"
            /\ fatal' = "TypeError"
            /\ UNCHANGED leases
       ELSE /\ pc' = "macfile"
            /\ leases' = sorted_leases(parsed)
            /\ UNCHANGED fatal
    /\ UNCHANGED <<CURRENT_TIME, ttl, parserVars, domainVars, assemblyVars,
                   outputVars>>

\* leases = dhcpd.Leases(options.leases), for a lease file with a line on
\* which add_line raises.
LoadFails ==
    /\ pc = "load"
    /\ pc' = "failed"
    /\ fatal' \in {"IndexError", "ValueError"}
    /\ UNCHANGED <<CURRENT_TIME, leases, ttl, parserVars, domainVars,
                   assemblyVars, outputVars>>

\* A pass over the macfile whose KeyError handler records nothing.
ReadMacLine_forgetting ==
    /\ pc = "macfile"
    /\ macfile # None
    /\ mac_i < Len(the(macfile))
    /\ mac_i' = mac_i + 1
    /\ LET fields == split(the(macfile)[mac_i + 1]) IN
       IF Len(fields) # 2
       THEN /\ pc' = "failed"
            /\ fatal' = "ValueError"
            /\ UNCHANGED <<mac_host_names, dynamics>>
       ELSE LET mac == strip(fields[1])
                name == fields[2]
                found == getitem(leases, mac)
            IN IF found.raised # NoException
               THEN UNCHANGED <<pc, fatal, dynamics, mac_host_names>>
               ELSE LET made == make_alias_entry(dmap, found.value, Some(name)) IN
                    IF made.raised # NoException
                    THEN /\ pc' = "failed"
                         /\ fatal' = made.raised
                         /\ UNCHANGED <<mac_host_names, dynamics>>
                    ELSE /\ dynamics' = setdefault_append(dynamics, made.value[1],
                                                          made.value[2])
                         /\ mac_host_names' =
                                (name :> Some(made.value[2])) @@ mac_host_names
                         /\ UNCHANGED <<pc, fatal>>
    /\ UNCHANGED <<CURRENT_TIME, leases, ttl, parserVars, domainVars, macfile,
                   lease_i, outputVars>>

\* One pass of the loop over the macfile.
ReadMacLine ==
    /\ pc = "macfile"
    /\ macfile # None
    /\ mac_i < Len(the(macfile))
    /\ mac_i' = mac_i + 1
    /\ LET fields == split(the(macfile)[mac_i + 1]) IN
       IF Len(fields) # 2
       THEN /\ pc' = "failed"
            /\ fatal' = "ValueError"
            /\ UNCHANGED <<mac_host_names, dynamics>>
       ELSE LET mac == strip(fields[1])
                name == fields[2]
                found == getitem(leases, mac)
            IN IF found.raised # NoException
               THEN /\ mac_host_names' = (name :> None) @@ mac_host_names
                    /\ UNCHANGED <<pc, fatal, dynamics>>
               ELSE LET made == make_alias_entry(dmap, found.value, Some(name)) IN
                    IF made.raised # NoException
                    THEN /\ pc' = "failed"
                         /\ fatal' = made.raised
                         /\ UNCHANGED <<mac_host_names, dynamics>>
                    ELSE /\ dynamics' = setdefault_append(dynamics, made.value[1],
                                                          made.value[2])
                         /\ mac_host_names' =
                                (name :> Some(made.value[2])) @@ mac_host_names
                         /\ UNCHANGED <<pc, fatal>>
    /\ UNCHANGED <<CURRENT_TIME, leases, ttl, parserVars, domainVars, macfile,
                   lease_i, outputVars>>

\* The macfile is exhausted, or there is none.
MacfileDone ==
    /\ pc = "macfile"
    /\ IF macfile = None THEN TRUE ELSE mac_i = Len(the(macfile))
    /\ pc' = "unique"
    /\ UNCHANGED <<fatal, CURRENT_TIME, leases, ttl, parserVars, domainVars,
                   assemblyVars, outputVars>>

\* One pass of the loop over leases.yield_unique().
UniqueStep ==
    /\ pc = "unique"
    /\ lease_i < Len(yield_unique(leases))
    /\ lease_i' = lease_i + 1
    /\ LET lease == yield_unique(leases)[lease_i + 1] IN
       IF lease.host_name = None \/ the(lease.host_name) \in DOMAIN mac_host_names
       THEN UNCHANGED <<pc, fatal, dynamics>>
       ELSE LET made == make_alias_entry(dmap, lease, None) IN
            IF made.raised # NoException
            THEN /\ pc' = "failed"
                 /\ fatal' = made.raised
                 /\ UNCHANGED dynamics
            ELSE /\ dynamics' = setdefault_append(dynamics, made.value[1],
                                                  made.value[2])
                 /\ UNCHANGED <<pc, fatal>>
    /\ UNCHANGED <<CURRENT_TIME, leases, ttl, parserVars, domainVars, macfile,
                   mac_i, mac_host_names, outputVars>>

\* An end of run that merges whether or not the run is a dry run.
Finish_always_merging ==
    /\ pc = "unique"
    /\ lease_i = Len(yield_unique(leases))
    /\ pc' = "done"
    /\ IF dry_run
       THEN /\ stdout' = Append(stdout, [dns |-> dynamics])
            /\ merged' = Append(merged, [dns |-> dynamics])
       ELSE /\ merged' = Append(merged, [dns |-> dynamics])
            /\ UNCHANGED stdout
    /\ UNCHANGED <<fatal, CURRENT_TIME, leases, ttl, parserVars, domainVars,
                   assemblyVars, dry_run>>

\* The sections are appended to dns; then print(dns) or dns.merge(root).
Finish ==
    /\ pc = "unique"
    /\ lease_i = Len(yield_unique(leases))
    /\ pc' = "done"
    /\ IF dry_run
       THEN /\ stdout' = Append(stdout, [dns |-> dynamics])
            /\ UNCHANGED merged
       ELSE /\ merged' = Append(merged, [dns |-> dynamics])
            /\ UNCHANGED stdout
    /\ UNCHANGED <<fatal, CURRENT_TIME, leases, ttl, parserVars, domainVars,
                   assemblyVars, dry_run>>

(***************************************************************************)
(* Specifications.                                                         *)
(***************************************************************************)
NoDomains ==
    /\ options_domain = None
    /\ domain_map = <<>>
    /\ dmap = <<>>
    /\ resolved = None
NoAssembly ==
    /\ macfile = None
    /\ mac_i = 0
    /\ mac_host_names = <<>>
    /\ dynamics = <<>>
    /\ lease_i = 0
NoOutput ==
    /\ dry_run = FALSE
    /\ merged = <<>>
    /\ stdout = <<>>

\* SpecParse: Leases.__init__ run over a lease file read line by line.
InitParse ==
    /\ pc = "parse"
    /\ fatal = NoException
    /\ CURRENT_TIME \in StartTimes
    /\ current_lease = None
    /\ leases = <<>>
    /\ nread = 0
    /\ line = <<>>
    /\ ttl = None
    /\ NoDomains /\ NoAssembly /\ NoOutput

NextParse == (\E raw \in LogLines : ReadLine(raw)) \/ EndOfInput

SpecParse == InitParse /\ [][NextParse]_vars

\* SpecHost: a client-hostname line read inside a block that holds no host
\* name yet.
InitHost ==
    /\ pc = "add_line"
    /\ fatal = NoException
    /\ CURRENT_TIME \in StartTimes
    /\ current_lease = Some(Lease(Line_lease_a))
    /\ leases = <<>>
    /\ nread = 2
    /\ line \in {strip(ClientHostnameLine(v)) : v \in HostNameValues}
    /\ ttl = None
    /\ NoDomains /\ NoAssembly /\ NoOutput

NextHost == AddLine

SpecHost == InitHost /\ [][NextHost]_vars

\* SpecTtl: calc_ttl called on a lease.
InitTtl ==
    /\ pc = "calc_ttl"
    /\ fatal = NoException
    /\ CURRENT_TIME \in TtlStartTimes
    /\ \E off \in TtlOffsets, late \in {0, 1}, unset \in BOOLEAN :
          current_lease =
              Some([ip |-> Ip_5, mac |-> Some(Mac_1), host_name |-> Some(Host_1),
                    expiration |-> IF unset THEN None
                                   ELSE Some(Midday + off * TicksPerSecond + late)])
    /\ leases = <<>>
    /\ nread = 0
    /\ line = <<>>
    /\ ttl = None
    /\ NoDomains /\ NoAssembly /\ NoOutput

NextTtl == CalcTtl

SpecTtl == InitTtl /\ [][NextTtl]_vars

\* SpecResolve: the domain map is built from a subnet map and the -d
\* option, and get_domain is called on addresses.
InitResolve ==
    /\ pc = "subnet_map"
    /\ fatal = NoException
    /\ CURRENT_TIME \in StartTimes
    /\ current_lease = None
    /\ leases = <<>>
    /\ nread = 0
    /\ line = <<>>
    /\ ttl = None
    /\ options_domain \in DomainOptions
    /\ domain_map = <<>>
    /\ dmap = <<>>
    /\ resolved = None
    /\ NoAssembly /\ NoOutput

NextResolve ==
    \/ \E l \in SubnetLines : ReadSubnetLine(l)
    \/ FinishDomainMap
    \/ \E ip \in QueryIps : Resolve(ip)

SpecResolve == InitResolve /\ [][NextResolve]_vars

\* Spec: a whole run of dhcp2tinydns without a macfile.
Init ==
    /\ pc = "subnet_map"
    /\ fatal = NoException
    /\ CURRENT_TIME \in RunStartTimes
    /\ current_lease = None
    /\ leases = <<>>
    /\ nread = 0
    /\ line = <<>>
    /\ ttl = None
    /\ options_domain \in RunDomainOptions
    /\ domain_map = <<>>
    /\ dmap = <<>>
    /\ resolved = None
    /\ macfile \in RunMacfiles
    /\ mac_i = 0
    /\ mac_host_names = <<>>
    /\ dynamics = <<>>
    /\ lease_i = 0
    /\ dry_run \in BOOLEAN
    /\ merged = <<>>
    /\ stdout = <<>>

Next ==
    \/ \E l \in RunSubnetLines : ReadSubnetLine(l)
    \/ FinishDomainMap
    \/ \E parsed \in SeqsUpTo(RunLeases, MaxLeases) : LoadLeases(parsed)
    \/ LoadFails
    \/ MacfileDone
    \/ UniqueStep
    \/ Finish

Spec == Init /\ [][Next]_vars

\* SpecOverride: a whole run of dhcp2tinydns with a macfile.
InitOverride ==
    /\ pc = "subnet_map"
    /\ fatal = NoException
    /\ CURRENT_TIME \in RunStartTimes
    /\ current_lease = None
    /\ leases = <<>>
    /\ nread = 0
    /\ line = <<>>
    /\ ttl = None
    /\ options_domain \in RunDomainOptions
    /\ domain_map = <<>>
    /\ dmap = <<>>
    /\ resolved = None
    /\ macfile \in OverrideMacfiles
    /\ mac_i = 0
    /\ mac_host_names = <<>>
    /\ dynamics = <<>>
    /\ lease_i = 0
    /\ dry_run \in BOOLEAN
    /\ merged = <<>>
    /\ stdout = <<>>

NextOverride ==
    \/ \E l \in RunSubnetLines : ReadSubnetLine(l)
    \/ FinishDomainMap
    \/ \E parsed \in SeqsUpTo(OverrideLeases, MaxLeases) : LoadLeases(parsed)
    \/ LoadFails
    \/ ReadMacLine
    \/ MacfileDone
    \/ UniqueStep
    \/ Finish

SpecOverride == InitOverride /\ [][NextOverride]_vars

(***************************************************************************)
(* Claims about the parser (SpecParse).                                    *)
(***************************************************************************)
Count(s, x) == Cardinality({i \in DOMAIN s : s[i] = x})
SameBag(s, t) ==
    /\ Len(s) = Len(t)
    /\ \A i \in DOMAIN s : Count(s, s[i]) = Count(t, s[i])

\* What each line of a well-formed block means.
OpenedIp ==
    [l \in {Line_lease_a, Line_lease_b} |->
        IF l = Line_lease_a THEN <<"1", "0", ".", "0", ".", "0", ".", "5">> ELSE <<"1", "0", ".", "0", ".", "1", ".", "7">>]
OtherKeywordLines == {strip(Line_starts), strip(Line_binding)}
ReadStep == pc = "parse" /\ nread' = nread + 1
Inside == current_lease # None
OnlyField(f, v) ==
    /\ current_lease' = Some([the(current_lease) EXCEPT ![f] = Some(v)])
    /\ UNCHANGED <<leases, pc, fatal>>

C1_OpenStep ==
    \A l \in DOMAIN OpenedIp :
        (ReadStep /\ ~Inside /\ line' = l) =>
            /\ current_lease' = Some([ip |-> OpenedIp[l], mac |-> None,
                                      expiration |-> None, host_name |-> None])
            /\ UNCHANGED <<leases, pc, fatal>>
C1_CloseStep ==
    (ReadStep /\ Inside /\ line' = Line_close) =>
        /\ leases' = Append(leases, the(current_lease))
        /\ current_lease' = None
        /\ UNCHANGED <<pc, fatal>>
C1_FieldStep ==
    /\ (ReadStep /\ Inside /\ line' = strip(Line_hardware))
          => OnlyField("mac", <<"a", "a", ":", "0", "1">>)
    /\ (ReadStep /\ Inside /\ line' = strip(Line_ends))
          => OnlyField("expiration", mktime(<<"2", "0", "2", "4", "/", "0", "5", "/", "0", "1", " ", "1", "2", ":", "0", "0", ":", "0", "0">>))
    /\ (ReadStep /\ Inside /\ line' = strip(Line_ends_never))
          => \E drift \in ClockDrift :
                OnlyField("expiration", CURRENT_TIME + drift + MAX_LEASE)
    /\ (ReadStep /\ Inside /\ line' = strip(Line_hostname))
          => OnlyField("host_name", <<"h", "o", "s", "t", "-", "1">>)
C1_OtherStep ==
    (ReadStep /\ Inside /\ line' \in OtherKeywordLines) =>
        UNCHANGED <<current_lease, leases, pc, fatal>>
C1_LoadStep ==
    (pc = "parse" /\ pc' = "loaded" /\ ~Inside) => SameBag(leases', leases)

\* C1: reading a file of well-formed blocks, the `lease` line opens a Lease
\* holding only its IP address, each `hardware ethernet`, `ends` and
\* `client-hostname` line sets only its own field of the open Lease, a line
\* with any other keyword changes nothing, the closing line emits exactly
\* the open Lease, no other line emits anything, and a completed load keeps
\* exactly the emitted Leases.
C1_OneLeasePerBlock ==
    [][C1_OpenStep /\ C1_CloseStep /\ C1_FieldStep /\ C1_OtherStep /\ C1_LoadStep]_vars

\* A second block is open with its hardware address set, one Lease has been
\* emitted, and a line with an unrecognized keyword has just been read.
C1_Witness ==
    /\ pc = "parse"
    /\ Len(leases) = 1
    /\ Inside
    /\ the(current_lease).mac # None
    /\ the(current_lease).ip # leases[1].ip
    /\ line \in OtherKeywordLines

\* C2: when the input ends inside a block, the end of the load adds no Lease:
\* whether or not the sort succeeds, the list holds exactly the Leases
\* emitted by the blocks closed before.
C2_UnterminatedDiscarded ==
    [][(pc = "parse" /\ pc' # "parse" /\ nread' = nread /\ Inside)
          => SameBag(leases', leases)]_vars

\* The load has completed with one Lease in the store although a second
\* block was still open, with fields of its own, when the input ended.
C2_Witness ==
    /\ pc = "loaded"
    /\ Inside
    /\ Len(leases) = 1
    /\ the(current_lease).mac # None
    /\ the(current_lease) # leases[1]

(***************************************************************************)
(* Claims about the lease store and whole runs (Spec, SpecOverride).       *)
(***************************************************************************)
Loaded == pc \in {"macfile", "unique", "done"}
SamePair(a, b) == a.host_name = b.host_name /\ a.ip = b.ip
\* a expires no later than b (two leases of a loaded store).
ExpiresNoLater(a, b) ==
    \/ a.expiration = b.expiration
    \/ /\ a.expiration # None
       /\ b.expiration # None
       /\ the(a.expiration) <= the(b.expiration)

\* C3: what yield_unique yields from a loaded store never holds two leases
\* with the same (host_name, ip), and for every pair in the store it holds a
\* lease of the store with that pair that expires no earlier than any other
\* lease of the store with that pair.
C3_UniqueFreshest ==
    Loaded =>
        LET u == yield_unique(leases) IN
        /\ \A i, j \in DOMAIN u : i # j => ~SamePair(u[i], u[j])
        /\ \A k \in DOMAIN leases :
              \E i \in DOMAIN u :
                 /\ SamePair(u[i], leases[k])
                 /\ \E m \in DOMAIN leases : leases[m] = u[i]
                 /\ \A m \in DOMAIN leases :
                       SamePair(leases[m], u[i]) => ExpiresNoLater(leases[m], u[i])

\* A loaded store holds two leases with the same pair and different
\* expirations, of which yield_unique yields one.
C3_Witness ==
    /\ Loaded
    /\ Len(leases) = 2
    /\ SamePair(leases[1], leases[2])
    /\ leases[1].expiration # leases[2].expiration
    /\ Len(yield_unique(leases)) = 1

\* The records of a dynamics dict, as (group, position) places.
Places(d) == {p \in (DOMAIN d) \X (1..(MaxLeases + MaxMacLines + 1)) :
                 p[2] \in DOMAIN d[p[1]].value}
RecordAt(d, p) == d[p[1]].value[p[2]]
\* What a completed run handed to print or to dns.merge.
Output == IF dry_run THEN stdout[Len(stdout)].dns ELSE merged[Len(merged)].dns
Named(record, name) == startswith(record.fqdn, name \o <<".">>)
\* The TTL of a second-resolution expiration, as the record carries it.
TtlOf(lease) == calc_ttl(lease).value
TwoHost1Blocks(i, j) ==
    /\ i # j
    /\ leases[i].host_name = Some(Host_1)
    /\ leases[j].host_name = Some(Host_1)
    /\ leases[i].mac = leases[j].mac
    /\ leases[i].expiration # None
    /\ leases[j].expiration # None
    /\ the(leases[i].expiration) > the(leases[j].expiration)
\* A record generated from this lease under its own host name.
FromLease(record, lease) ==
    /\ Named(record, the(lease.host_name))
    /\ record.ip = lease.ip
    /\ record.ttl = TtlOf(lease)

\* C4 as claimed: whatever the two blocks' IP addresses, the output holds
\* a record of the later-expiring block, named host1.<domain>, and none of
\* the earlier-expiring block.
C4_Original ==
    (pc = "done" /\ macfile = None) =>
        \A i, j \in DOMAIN leases :
            TwoHost1Blocks(i, j) =>
                /\ \E p \in Places(Output) :
                      /\ FromLease(RecordAt(Output, p), leases[i])
                      /\ RecordAt(Output, p).fqdn =
                            Host_1 \o <<".">> \o Output[p[1]].key
                /\ ~\E p \in Places(Output) :
                      FromLease(RecordAt(Output, p), leases[j])

\* C4, amended: when the two blocks also have the same IP address, the
\* output of a completed run holds exactly one record named host1 at that
\* address; it is named host1.<the domain get_domain resolves the address
\* to> and carries the TTL of the latest-expiring host1 block at that
\* address, which (the model's expirations giving different TTLs) is not the
\* TTL of the earlier-expiring block.
C4_SameAddress ==
    (pc = "done" /\ macfile = None) =>
        \A i, j \in DOMAIN leases :
            (TwoHost1Blocks(i, j) /\ leases[i].ip = leases[j].ip) =>
                LET places == {p \in Places(Output) :
                                  /\ Named(RecordAt(Output, p), Host_1)
                                  /\ RecordAt(Output, p).ip = leases[i].ip}
                IN /\ Cardinality(places) = 1
                   /\ \A p \in places :
                         /\ RecordAt(Output, p).fqdn = Host_1 \o <<".">>
                               \o the(get_domain(dmap, leases[i].ip).value)
                         /\ \E m \in DOMAIN leases :
                               /\ SamePair(leases[m], leases[i])
                               /\ \A n \in DOMAIN leases :
                                     SamePair(leases[n], leases[i])
                                         => ExpiresNoLater(leases[n], leases[m])
                               /\ RecordAt(Output, p).ttl = TtlOf(leases[m])
                               /\ RecordAt(Output, p).ttl # TtlOf(leases[j])

\* A run completed on a lease file with two host1 blocks of one hardware
\* and IP address and different expirations.
C4_Witness ==
    /\ pc = "done"
    /\ macfile = None
    /\ Len(leases) = 2
    /\ TwoHost1Blocks(1, 2)
    /\ leases[1].ip = leases[2].ip
    /\ Places(Output) # {}

(***************************************************************************)
(* Claims about calc_ttl (SpecTtl).                                        *)
(***************************************************************************)
\* The time from the clock reading to the expiration, in ticks, and the
\* integer the returned decimal string denotes.
Remaining == the(the(current_lease).expiration) - CURRENT_TIME
TtlSeconds == DecimalValue(the(ttl))

\* C5: for a lease with an expiration, calc_ttl returns (as a decimal
\* string) the whole seconds of expiration - now, truncated, clamped into
\* [60, 86400]: 60 for 1000 s ago, 86400 for 10,000,000 s ahead and 3600
\* for 3600 s ahead.
C5_TtlClamped ==
    pc = "ttl_returned" =>
        /\ the(ttl) = str(TtlSeconds)
        /\ TtlSeconds \in 60..86400
        /\ Remaining < 60 * TicksPerSecond => TtlSeconds = 60
        /\ Remaining >= 86400 * TicksPerSecond => TtlSeconds = 86400
        /\ (Remaining >= 60 * TicksPerSecond /\ Remaining < 86400 * TicksPerSecond)
              => /\ TtlSeconds * TicksPerSecond <= Remaining
                 /\ Remaining < (TtlSeconds + 1) * TicksPerSecond
        /\ Remaining = -1000 * TicksPerSecond => TtlSeconds = 60
        /\ Remaining = 10000000 * TicksPerSecond => TtlSeconds = 86400
        /\ Remaining = 3600 * TicksPerSecond => TtlSeconds = 3600

\* calc_ttl has returned for an expiration a fraction of a second short of
\* 86401 s ahead, which truncates to 86400.
C5_Witness ==
    /\ pc = "ttl_returned"
    /\ Remaining > 86400 * TicksPerSecond
    /\ Remaining < 86401 * TicksPerSecond
    /\ the(ttl) = <<"8", "6", "4", "0", "0">>

(***************************************************************************)
(* Claims about host-name sanitization (SpecHost).                         *)
(***************************************************************************)
HostNameOf(value) ==
    IF line = strip(ClientHostnameLine(value))
    THEN {the(current_lease).host_name} ELSE {}

\* C6 as claimed: "Bob's_PC" is stored as bob-s-pc, ---x as x, and "___"
\* leaves the host name unset.
C6_Original ==
    pc = "added" =>
        /\ HostNameOf(Name_bob) \subseteq {Some(<<"b", "o", "b", "-", "s", "-", "p", "c">>)}
        /\ HostNameOf(Name_dashes) \subseteq {Some(<<"x">>)}
        /\ HostNameOf(Name_underscores) \subseteq {None}

\* C6, amended: "Bob's_PC" is stored as bobs-pc (the quote characters are
\* removed, not replaced), ---x as x, and "___" leaves the host name unset.
C6_Sanitized ==
    pc = "added" =>
        /\ HostNameOf(Name_bob) \subseteq {Some(<<"b", "o", "b", "s", "-", "p", "c">>)}
        /\ HostNameOf(Name_dashes) \subseteq {Some(<<"x">>)}
        /\ HostNameOf(Name_underscores) \subseteq {None}

\* The line  client-hostname "Bob's_PC";  has been added to a lease.
C6_Witness ==
    /\ pc = "added"
    /\ HostNameOf(Name_bob) # {}
    /\ the(current_lease).host_name # None

(***************************************************************************)
(* Claims about domain resolution (SpecResolve).                           *)
(***************************************************************************)
\* The documented sort key of a prefix: network base + number of addresses.
DocumentedKey(net) ==
    wide_add(net.network_address,
             IF net.prefixlen <= 16 THEN wide(2 ^ (16 - net.prefixlen), 0)
             ELSE wide(0, 2 ^ (32 - net.prefixlen)))
\* The configured prefixes that contain the address last resolved.
Containing ==
    {i \in DOMAIN domain_map :
        contains(domain_map[i].key, ip_address(the(resolved).ip))}
Earliest ==
    {i \in Containing :
        \A j \in Containing :
            wide_le(DocumentedKey(domain_map[i].key), DocumentedKey(domain_map[j].key))}
\* The first of them in ascending key order, entries with equal keys
\* keeping the order in which the map received them.
First == CHOOSE i \in Earliest : \A j \in Earliest : i <= j
C7_FirstInKeyOrder ==
    IF Containing = {} THEN the(resolved).domain = None
    ELSE the(resolved).domain = Some(domain_map[First].value)
SameBaseSmaller(i, j) ==
    /\ domain_map[i].key.network_address = domain_map[j].key.network_address
    /\ domain_map[i].key.prefixlen > domain_map[j].key.prefixlen
    /\ i \in Containing

\* C7 as claimed: get_domain returns the domain of a containing prefix that
\* is first in ascending key order, None when no prefix contains the
\* address; and for any two configured prefixes with the same base, an
\* address inside the smaller resolves to the smaller one's domain.
C7_Original ==
    (pc = "load" /\ resolved # None) =>
        /\ C7_FirstInKeyOrder
        /\ \A i, j \in DOMAIN domain_map :
              SameBaseSmaller(i, j) =>
                  the(resolved).domain = Some(domain_map[i].value)

\* C7, amended: the same, the second part holding unless a further
\* configured prefix that contains the address has a sort key no greater
\* than the smaller prefix's.
C7_Resolve ==
    (pc = "load" /\ resolved # None) =>
        /\ C7_FirstInKeyOrder
        /\ \A i, j \in DOMAIN domain_map :
              (SameBaseSmaller(i, j) /\ Earliest = {i}) =>
                  the(resolved).domain = Some(domain_map[i].value)

\* 10.0.0.5 has been resolved to a.com under a map that was given
\* 10.0.0.0/16 -> b.com before 10.0.0.0/24 -> a.com.
C7_Witness ==
    /\ pc = "load"
    /\ resolved = Some([ip |-> Ip_5, domain |-> Some(Dom_a)])
    /\ Len(domain_map) = 2
    /\ domain_map[1] = [key |-> ip_network(Cidr_16).value, value |-> <<"b", ".", "c", "o", "m">>]
    /\ domain_map[2] = [key |-> ip_network(Cidr_24).value, value |-> Dom_a]

(***************************************************************************)
(* Claims about the override file (SpecOverride).                          *)
(***************************************************************************)
\* The macfile lines read so far.
LinesRead == IF macfile = None THEN {} ELSE 1..mac_i
OverrideMac(k) == strip(split(the(macfile)[k])[1])
OverrideName(k) == split(the(macfile)[k])[2]
\* Line k names a hardware address that no lease of the store has.
Unassigned(k) == getitem(leases, OverrideMac(k)).raised = "KeyError"
\* The run failed on macfile line k.
FailedOn(k) == pc = "failed" /\ lease_i = 0 /\ k = mac_i
\* Line k produced a record.
Assigned(k) == ~Unassigned(k) /\ ~FailedOn(k)
RecordsNamed(d, name) ==
    {p \in Places(d) : RecordAt(d, p).fqdn = name \o <<".">> \o d[p[1]].key}

\* C8: an override line naming N for a hardware address that no lease has
\* does not fail the run (a run having failed in the macfile has failed on
\* another line), N is recorded as known, and the records named N are as
\* many as the override lines naming N whose hardware address a lease has:
\* none comes from that line and none from a lease whose own name is N.
C8_UnassignedOverride ==
    Loaded \/ pc = "failed" =>
        \A k \in LinesRead :
            Unassigned(k) =>
                /\ ~FailedOn(k)
                /\ OverrideName(k) \in DOMAIN mac_host_names
                /\ Cardinality(RecordsNamed(dynamics, OverrideName(k))) =
                   Cardinality({j \in LinesRead :
                                   /\ OverrideName(j) = OverrideName(k)
                                   /\ Assigned(j)})

\* A run has completed whose macfile names printer for a hardware address
\* that no lease has, and whose store holds a lease that names itself
\* printer and one that names itself host1: the output holds a record for
\* host1 and none for printer.
C8_Witness ==
    /\ pc = "done"
    /\ macfile = Some(<<Mac_2 \o <<" ">> \o Host_printer>>)
    /\ Len(leases) = 2
    /\ leases[1].mac = Some(Mac_1) /\ leases[1].host_name = Some(Host_printer)
    /\ leases[2].mac = Some(Mac_1) /\ leases[2].host_name = Some(Host_1)
    /\ RecordsNamed(Output, Host_printer) = {}
    /\ RecordsNamed(Output, Host_1) # {}

(***************************************************************************)
(* Claims about a whole run (Spec).                                        *)
(***************************************************************************)
\* C9: dns.merge is called at most once, and only by a run that is not a
\* dry run, has raised nothing, and has finished loading the leases,
\* building the domain map and assembling the records it hands over; a run
\* that failed has merged nothing, and neither has a dry run.
C9_MergeLast ==
    /\ Len(merged) <= 1
    /\ merged # <<>> =>
          /\ pc = "done"
          /\ fatal = NoException
          /\ ~dry_run
          /\ dmap = domain_getter(domain_map)
          /\ lease_i = Len(yield_unique(leases))
          /\ merged[1].dns = dynamics
    /\ (pc = "failed" \/ fatal # NoException) => merged = <<>>
    /\ dry_run => merged = <<>>

\* A run that is not a dry run has generated a record and then failed on a
\* lease whose address no prefix contains: nothing has been merged.
C9_Witness ==
    /\ pc = "failed"
    /\ fatal = "TypeError"
    /\ ~dry_run
    /\ dynamics # <<>>
    /\ merged = <<>>

\* The leases the unique-lease loop has taken up so far.
TakenUp == {yield_unique(leases)[k] : k \in 1..lease_i}
Unresolvable(lease) == first_match(dmap, ip_address(lease.ip)) = None
NamesItself(lease) ==
    /\ lease.host_name # None
    /\ the(lease.host_name) \notin DOMAIN mac_host_names

\* C10: every record generated is in the group keyed by the domain that
\* get_domain returns for its address, and its fqdn is a host name of a
\* lease at that address, a dot and that domain; once the loop has taken up
\* a lease that has a host name and an address which no prefix contains,
\* the run has failed.
C10_RecordsHaveDomain ==
    /\ \A p \in Places(dynamics) :
          LET record == RecordAt(dynamics, p)
              domain == dynamics[p[1]].key
          IN /\ get_domain(dmap, record.ip) = Return(Some(domain))
             /\ \E k \in DOMAIN leases :
                   /\ leases[k].ip = record.ip
                   /\ leases[k].host_name # None
                   /\ record.fqdn = the(leases[k].host_name) \o <<".">> \o domain
    /\ \A lease \in TakenUp :
          (NamesItself(lease) /\ Unresolvable(lease)) =>
              /\ pc = "failed"
              /\ fatal = "TypeError"
              /\ merged = <<>> /\ stdout = <<>>

\* With only 10.0.0.0/24 -> a.com configured, the loop has generated
\* host1.a.com for a lease at 10.0.0.5 and then failed on a lease at
\* 192.168.0.9.
C10_Witness ==
    /\ pc = "failed"
    /\ lease_i = 2
    /\ Unresolvable(yield_unique(leases)[2])
    /\ NamesItself(yield_unique(leases)[2])
    /\ ~Unresolvable(yield_unique(leases)[1])
    /\ Len(dynamics) = 1
    /\ dynamics[1].key = <<"a", ".", "c", "o", "m">>
    /\ dynamics[1].value[1].fqdn = <<"h", "o", "s", "t", "1", ".", "a", ".", "c", "o", "m">>

(***************************************************************************)
(* Claims about the -d option (SpecResolve).                               *)
(***************************************************************************)
\* The step that applies the -d option to the map read from the subnet map.
OptionStep == pc = "subnet_map" /\ pc' = "load"
OptionGiven == options_domain # None /\ options_domain # Some(<<>>)
\* The catch-all entry the subnet map defined, if any.
FileCatchAll ==
    {domain_map[i].value : i \in {j \in DOMAIN domain_map :
        domain_map[j].key = [prefixlen |-> 0, network_address |-> wide(0, 0)]}}
CatchAllAfter ==
    {domain_map'[i].value : i \in {j \in DOMAIN domain_map' :
        domain_map'[j].key = [prefixlen |-> 0, network_address |-> wide(0, 0)]}}

\* C11: when -d is given, the step that applies it leaves 0.0.0.0/0 mapped
\* to the option's domain (leading dots removed) whether or not the subnet
\* map defined 0.0.0.0/0, prints one warning exactly when the subnet map
\* defined 0.0.0.0/0 with another domain, and the run goes on.
C11_OptionWins ==
    [][(OptionStep /\ OptionGiven) =>
          /\ CatchAllAfter = {dedot(the(options_domain))}
          /\ IF FileCatchAll \subseteq {dedot(the(options_domain))}
             THEN stdout' = stdout
             ELSE /\ Len(stdout') = Len(stdout) + 1
                  /\ stdout'[Len(stdout')].old \in FileCatchAll
                  /\ stdout'[Len(stdout')].new = dedot(the(options_domain))
          /\ pc' = "load"
          /\ fatal' = NoException]_vars

\* -d .b.com has been applied to a subnet map that mapped 0.0.0.0/0 to
\* a.com: the warning is printed and 0.0.0.0/0 maps to b.com.
C11_Witness ==
    /\ pc = "load"
    /\ options_domain = Some(<<"b", ".", "c", "o", "m">>)
    /\ Len(stdout) = 1
    /\ stdout[1].old = Dom_a
    /\ dict_get(domain_map, allnet) = <<"b", ".", "c", "o", "m">>
    /\ fatal = NoException

(***************************************************************************)
(* Claims about lookup by hardware address (SpecOverride).                 *)
(***************************************************************************)
\* The step of the macfile loop that looks up the hardware address of the
\* next line.
LookupStep == pc = "macfile" /\ mac_i' = mac_i + 1
\* The places of the store whose lease has the hardware address.
Holders(mac) == {k \in DOMAIN leases : leases[k].mac = Some(mac)}
FirstHolder(mac) == CHOOSE k \in Holders(mac) : \A j \in Holders(mac) : k <= j

\* C12: leases[mac] returns the first lease in store order with that
\* hardware address, none of the leases with that address expires later
\* than it, it raises KeyError exactly when no lease has the address, and
\* the store is the same after the call; the record the loop makes is the
\* returned lease's.
C12_LookupFirst ==
    [][LookupStep =>
          LET mac == OverrideMac(mac_i + 1)
              name == OverrideName(mac_i + 1)
              found == getitem(leases, mac)
          IN /\ leases' = leases
             /\ IF Holders(mac) = {}
                THEN /\ found = Raise("KeyError")
                     /\ mac_host_names'[name] = None
                     /\ pc' = "macfile"
                ELSE /\ found = Return(leases[FirstHolder(mac)])
                     /\ \A k \in Holders(mac) :
                           ExpiresNoLater(leases[k], leases[FirstHolder(mac)])
                     /\ pc' = "macfile" =>
                           /\ the(mac_host_names'[name]).ip = leases[FirstHolder(mac)].ip
                           /\ the(mac_host_names'[name]).ttl = TtlOf(leases[FirstHolder(mac)])]_vars

\* The store holds two leases with hardware address aa:01 and different
\* expirations, and the macfile loop has named the later-expiring one host1.
C12_Witness ==
    /\ pc = "macfile"
    /\ mac_i = 1
    /\ Len(leases) = 2
    /\ Holders(Mac_1) = {1, 2}
    /\ leases[1].expiration # leases[2].expiration
    /\ Host_1 \in DOMAIN mac_host_names
    /\ mac_host_names[Host_1] # None
    /\ the(mac_host_names[Host_1]).ttl = TtlOf(leases[1])
    /\ the(mac_host_names[Host_1]).ttl # TtlOf(leases[2])

(***************************************************************************)
(* Claims about the states of the parser (SpecParse).                      *)
(***************************************************************************)
\* The line just read, stripped, begins with the closing brace.
ClosingLine == line' # <<>> /\ line'[1] = "}"
SkippedLine == line' = <<>> \/ line'[1] = "#"
Emits ==
    /\ leases' = Append(leases, the(current_lease))
    /\ current_lease' = None
    /\ UNCHANGED <<pc, fatal>>
\* The line goes to the field updater: nothing is emitted, and the block
\* stays open, holding what the updater made of it, unless the updater
\* raises.
Updates ==
    /\ leases' = leases
    /\ \E drift \in ClockDrift :
          LET r == add_line(the(current_lease), line', CURRENT_TIME + drift) IN
          IF r.raised # NoException
          THEN pc' = "failed" /\ fatal' = r.raised /\ current_lease' = current_lease
          ELSE /\ UNCHANGED <<pc, fatal>>
               /\ current_lease' = Some(r.value)
               /\ r.value.ip = the(current_lease).ip

\* C13 as claimed: inside a block only the line that is exactly `}` emits
\* the Lease and closes the block; any other line emits nothing and leaves
\* the block open.
C13_Original ==
    [][(ReadStep /\ Inside) =>
          IF line' = <<"}">> THEN Emits
          ELSE leases' = leases /\ (pc' = "parse" => current_lease' # None)]_vars

\* C13, amended: inside a block every line that, stripped of surrounding
\* whitespace, begins with `}` emits the Lease and closes the block,
\* whatever follows the brace; a blank or comment line changes nothing;
\* every other line goes to the field updater, emits nothing and leaves the
\* block open.
C13_ClosingBrace ==
    [][(ReadStep /\ Inside) =>
          IF SkippedLine THEN UNCHANGED <<current_lease, leases, pc, fatal>>
          ELSE IF ClosingLine THEN Emits
          ELSE Updates]_vars

\* A block opened by the first line has been closed, and its Lease emitted,
\* by a second line that reads `}; `.
C13_Witness ==
    /\ pc = "parse"
    /\ nread = 2
    /\ line = strip(Line_close_more)
    /\ line # <<"}">>
    /\ current_lease = None
    /\ Len(leases) = 1

LeaseLine ==
    /\ Len(line') >= 6
    /\ SubSeq(line', 1, 6) = <<"l", "e", "a", "s", "e", " ">>

\* C14: a line beginning with `lease ` that is read inside a block starts
\* no Lease, changes no field of the open Lease, emits nothing, raises
\* nothing and leaves the block open; the closing line that follows emits
\* the Lease as the first `lease ` line and the field lines made it.
C14_NestedLeaseIgnored ==
    [][/\ (ReadStep /\ Inside /\ LeaseLine) =>
             UNCHANGED <<current_lease, leases, pc, fatal>>
       /\ (ReadStep /\ Inside /\ line' = <<"}">>) =>
             leases' = Append(leases, the(current_lease))]_vars

\* Inside the block opened by `lease 10.0.0.5 {`, whose hardware address
\* has been read, the line `lease 10.0.1.7 {` has just been read: the open
\* Lease is still the one at 10.0.0.5.
C14_Witness ==
    /\ pc = "parse"
    /\ nread = 3
    /\ line = Line_lease_b
    /\ current_lease # None
    /\ the(current_lease).ip = Ip_5
    /\ the(current_lease).mac # None
    /\ leases = <<>>

(***************************************************************************)
(* Claims about the order of the store (SpecParse).                        *)
(***************************************************************************)
\* The step that ends a load: self.leases.sort(); self.leases.reverse().
\* Before it the list is in parse order, after it in store order.
SortStep == pc = "parse" /\ pc' = "loaded"
Before(s, a, b) == \E p, q \in DOMAIN s : p < q /\ s[p] = a /\ s[q] = b

\* C15: two different leases with the same expiration stand in the store in
\* the order in which they were parsed.
C15_TiesInParseOrder ==
    [][SortStep =>
          \A i, j \in DOMAIN leases :
              (/\ i < j
               /\ leases[i] # leases[j]
               /\ leases[i].expiration = leases[j].expiration) =>
                  Before(leases', leases[i], leases[j])]_vars

\* a stands no later than b in a store ordered by expiration descending,
\* leases without expiration last.
OrderedPair(a, b) ==
    \/ b.expiration = None
    \/ /\ a.expiration # None
       /\ the(a.expiration) >= the(b.expiration)

\* C16: the load of a lease file on which the field updater raised nothing
\* completes, also when some leases have no expiration, and leaves the store
\* ordered by expiration non-increasing with the leases that have no
\* expiration after all those that have one.
C16_LoadOrders ==
    /\ pc = "failed" => fatal \in {"IndexError", "ValueError"}
    /\ pc = "loaded" =>
          \A i, j \in DOMAIN leases : i < j => OrderedPair(leases[i], leases[j])

(***************************************************************************)
(* Claims about the most specific prefix (SpecResolve).                    *)
(***************************************************************************)
\* Among the configured prefixes that contain the address last resolved,
\* the longest.  Prefixes being nested or disjoint, it is the only one of
\* its length.
Longest ==
    CHOOSE i \in Containing :
        \A j \in Containing : domain_map[j].key.prefixlen <= domain_map[i].key.prefixlen
NestedOrDisjoint ==
    \A i, j \in DOMAIN domain_map :
        LET a == domain_map[i].key
            b == domain_map[j].key
        IN \/ contains(a, b.network_address) /\ a.prefixlen <= b.prefixlen
           \/ contains(b, a.network_address) /\ b.prefixlen <= a.prefixlen
           \/ ~contains(a, b.network_address) /\ ~contains(b, a.network_address)

OverrideNames(lease) ==
    {OverrideName(j) : j \in {i \in LinesRead : Some(OverrideMac(i)) = lease.mac}}
\* The records of d at the lease's address under the lease's own name.
OwnRecords(d, lease) ==
    {p \in RecordsNamed(d, the(lease.host_name)) : RecordAt(d, p).ip = lease.ip}

\* C18: the output of a completed run holds at most one record per lease;
\* a lease whose hardware address has an override is named by the override
\* and not also by its own host name; a lease without override is named by
\* its own host name; a lease with neither is not named.
C18_OneRecordPerLease ==
    pc = "done" =>
        /\ Cardinality(Places(Output)) <= Len(leases)
        /\ \A k \in DOMAIN leases :
              (/\ OverrideNames(leases[k]) # {}
               /\ leases[k].host_name # None
               /\ the(leases[k].host_name) \notin OverrideNames(leases[k])
               /\ \A m \in DOMAIN leases :
                     SamePair(leases[m], leases[k]) => OverrideNames(leases[m]) # {})
                  => OwnRecords(Output, leases[k]) = {}

(***************************************************************************)
(* Claims about leases without expiration (Spec).                          *)
(***************************************************************************)
\* C19: a lease file whose blocks lack an `ends` line loads, and a lease
\* without expiration that has a host name and a resolvable domain gets a
\* record with a TTL in [60, 86400]: a run fails with TypeError only on a
\* lease whose address no prefix contains.
C19_OpenEndedLease ==
    /\ (pc = "failed" /\ fatal = "TypeError") =>
          /\ lease_i >= 1
          /\ Unresolvable(yield_unique(leases)[lease_i])
    /\ \A p \in Places(dynamics) :
          DecimalValue(RecordAt(dynamics, p).ttl) \in 60..86400

(***************************************************************************)
(* Claims about the stored host name (SpecHost).                           *)
(***************************************************************************)
\* The characters that sanitization removes or turns into `-`, and `-`.
QuoteChars == {"\"", "'"}
ReplacedChars == {"/", "\\", "_", " "}
OnlyRemovable(v) ==
    \A i \in DOMAIN v : v[i] \in QuoteChars \cup ReplacedChars \cup {"-"}
CleanName(h) ==
    /\ h # <<>>
    /\ h[1] # "-"
    /\ \A i \in DOMAIN h :
          /\ h[i] \notin QuoteChars \cup ReplacedChars
          /\ h[i] \notin {"A", "B", "C", "H", "O", "P", "S", "X"}

====
